---------------------------- MODULE Spec2Model ----------------------------
(***************************************************************************)
(* A model of DebugGPT.tsx: the language detector, the per-language rule   *)
(* scan, the generic checks, and the component state that the analyze      *)
(* button, the text area and the delayed delivery act on.                  *)
(*                                                                         *)
(* A JavaScript string is a sequence of one-character strings.  A regular  *)
(* expression is a syntax tree, and matching is computed by position sets, *)
(* so that RegExp.test is decided by the pattern and the text alone.       *)
(***************************************************************************)
EXTENDS Integers, Sequences, FiniteSets, TLC

VARIABLES
  code, language, errors, tips, isAnalyzing,  \* the useState cells the analysis reads and writes
  timers,          \* callbacks handed to setTimeout and not yet run, oldest first
  lastReq,         \* history: the text and the busy flag at the latest press of the analyze control
  tick,            \* history: flips at every press of the analyze control
  runCode,         \* history: the text captured by the latest analyzeCode that got past its guard
  editedPending,   \* history: the text area changed since that analyzeCode while its callback was pending
  prevShown,       \* history: the findings and tips on show when that analyzeCode was entered
  dText, dResult,  \* detectLanguage applied alone: its argument and its return value
  rLines, rLang, rErrors, rTips, rPc  \* the two analyzers applied alone to (lines, language)

compVars == <<code, language, errors, tips, isAnalyzing, timers,
              lastReq, tick, runCode, editedPending, prevShown>>
detVars  == <<dText, dResult>>
ruleVars == <<rLines, rLang, rErrors, rTips, rPc>>
vars     == <<compVars, detVars, ruleVars>>

---------------------------------------------------------------------------
(* Characters and strings *)

LowerChars == {"a","b","c","d","e","f","g","h","i","j","k","l","m",
               "n","o","p","q","r","s","t","u","v","w","x","y","z"}
UpperChars == {"A","B","C","D","E","F","G","H","I","J","K","L","M",
               "N","O","P","Q","R","S","T","U","V","W","X","Y","Z"}
DigitChars == {"0","1","2","3","4","5","6","7","8","9"}
\* \w
WordChars == LowerChars \cup UpperChars \cup DigitChars \cup {"_"}
\* \s, and the characters String.prototype.trim strips
WhiteSpace == {" ", "\t", "\n", "\r", "\f"}
\* the characters "." does not match
LineTerminators == {"\n", "\r"}

RECURSIVE Concat(_)
\* Array.prototype.join("")
Concat(ls) == IF ls = <<>> THEN <<>> ELSE Head(ls) \o Concat(Tail(ls))

\* String.prototype.includes
Includes(s, lit) ==
  \E i \in 1..(Len(s) + 1 - Len(lit)) : SubSeq(s, i, i + Len(lit) - 1) = lit

\* String.prototype.trim
Trim(s) ==
  LET keep == {i \in 1..Len(s) : s[i] \notin WhiteSpace}
  IN  IF keep = {} THEN <<>>
      ELSE LET lo == CHOOSE i \in keep : \A j \in keep : i <= j
               hi == CHOOSE i \in keep : \A j \in keep : j <= i
           IN  SubSeq(s, lo, hi)

\* String.prototype.split("\n"): the pieces between consecutive line feeds
Split(s) ==
  LET nl     == {i \in 1..Len(s) : s[i] = "\n"}
      nth(k) == CHOOSE i \in nl : Cardinality({j \in nl : j < i}) = k - 1
      n      == Cardinality(nl) + 1
  IN  [k \in 1..n |->
         SubSeq(s, IF k = 1 THEN 1 ELSE nth(k - 1) + 1,
                   IF k = n THEN Len(s) ELSE nth(k) - 1)]

---------------------------------------------------------------------------
(* Regular expressions *)

Chr(S)     == <<"set", S>>       \* [...]
NotChr(S)  == <<"nset", S>>      \* [^...]
Cat(rs)    == <<"cat", rs>>
Alt(rs)    == <<"alt", rs>>
Star(c)    == <<"star", c>>      \* c*, c a character class
Plus(c)    == <<"cat", <<c, <<"star", c>>>>>>
Lit(str)   == <<"cat", [i \in 1..Len(str) |-> <<"set", {str[i]}>>]>>
NegLook(r) == <<"nla", r>>       \* (?!...)
Bol        == <<"bol">>          \* ^
Eol        == <<"eol">>          \* $
WordB      == <<"wb">>           \* \b
AnyCh      == NotChr(LineTerminators)   \* .
Sp         == Chr(WhiteSpace)           \* \s
Wd         == Chr(WordChars)            \* \w

IsWordAt(s, i) == i >= 1 /\ i <= Len(s) /\ s[i] \in WordChars

RECURSIVE Ends(_, _, _), CatEnds(_, _, _, _), StarEnds(_, _, _)
\* The positions at which a match of re that starts at position i of s can end.
Ends(re, s, i) ==
  CASE re[1] = "set"  -> IF i <= Len(s) /\ s[i] \in re[2] THEN {i + 1} ELSE {}
    [] re[1] = "nset" -> IF i <= Len(s) /\ s[i] \notin re[2] THEN {i + 1} ELSE {}
    [] re[1] = "cat"  -> CatEnds(re[2], s, {i}, 1)
    [] re[1] = "alt"  -> UNION {Ends(re[2][k], s, i) : k \in 1..Len(re[2])}
    [] re[1] = "star" -> StarEnds(re[2], s, i)
    [] re[1] = "nla"  -> IF Ends(re[2], s, i) = {} THEN {i} ELSE {}
    [] re[1] = "bol"  -> IF i = 1 THEN {i} ELSE {}
    [] re[1] = "eol"  -> IF i = Len(s) + 1 THEN {i} ELSE {}
    [] re[1] = "wb"   -> IF IsWordAt(s, i - 1) # IsWordAt(s, i) THEN {i} ELSE {}

CatEnds(rs, s, from, k) ==
  IF k > Len(rs) \/ from = {} THEN from
  ELSE CatEnds(rs, s, UNION {Ends(rs[k], s, p) : p \in from}, k + 1)

\* c* from position i: every position up to the first character c rejects
StarEnds(c, s, i) ==
  LET stop  == {p \in i..Len(s) : Ends(c, s, p) = {}}
      first == IF stop = {} THEN Len(s) + 1
               ELSE CHOOSE p \in stop : \A q \in stop : p <= q
  IN  i..first

\* RegExp.prototype.test for a pattern without the g, y, m, i, s or u flag
Test(re, s) == \E i \in 1..(Len(s) + 1) : Ends(re, s, i) # {}

---------------------------------------------------------------------------
(* detectLanguage *)

Languages == {"JavaScript", "Python", "C", "C++", "Java", "HTML", "CSS",
              "C#", "TypeScript", "Unknown"}

patterns == <<
  \* /(function\s*\(|=>|const\s+\w+\s*=|let\s+\w+\s*=|var\s+\w+\s*=)/
  [language |-> "JavaScript", pattern |-> Alt(<<
      Cat(<<Lit(<<"f","u","n","c","t","i","o","n">>), Star(Sp), Lit(<<"(">>)>>),
      Lit(<<"=",">">>),
      Cat(<<Lit(<<"c","o","n","s","t">>), Plus(Sp), Plus(Wd), Star(Sp), Lit(<<"=">>)>>),
      Cat(<<Lit(<<"l","e","t">>), Plus(Sp), Plus(Wd), Star(Sp), Lit(<<"=">>)>>),
      Cat(<<Lit(<<"v","a","r">>), Plus(Sp), Plus(Wd), Star(Sp), Lit(<<"=">>)>>)>>)],
  \* /(def\s+\w+\s*\(|import\s+\w+|print\s*\(|from\s+\w+\s+import)/
  [language |-> "Python", pattern |-> Alt(<<
      Cat(<<Lit(<<"d","e","f">>), Plus(Sp), Plus(Wd), Star(Sp), Lit(<<"(">>)>>),
      Cat(<<Lit(<<"i","m","p","o","r","t">>), Plus(Sp), Plus(Wd)>>),
      Cat(<<Lit(<<"p","r","i","n","t">>), Star(Sp), Lit(<<"(">>)>>),
      Cat(<<Lit(<<"f","r","o","m">>), Plus(Sp), Plus(Wd), Plus(Sp), Lit(<<"i","m","p","o","r","t">>)>>)>>)],
  \* /(#include\s*<|printf\s*\(|int\s+main\s*\()/
  [language |-> "C", pattern |-> Alt(<<
      Cat(<<Lit(<<"#","i","n","c","l","u","d","e">>), Star(Sp), Lit(<<"<">>)>>),
      Cat(<<Lit(<<"p","r","i","n","t","f">>), Star(Sp), Lit(<<"(">>)>>),
      Cat(<<Lit(<<"i","n","t">>), Plus(Sp), Lit(<<"m","a","i","n">>), Star(Sp), Lit(<<"(">>)>>)>>)],
  \* /(std::|#include\s*<|using\s+namespace|cout\s*<<)/
  [language |-> "C++", pattern |-> Alt(<<
      Lit(<<"s","t","d",":",":">>),
      Cat(<<Lit(<<"#","i","n","c","l","u","d","e">>), Star(Sp), Lit(<<"<">>)>>),
      Cat(<<Lit(<<"u","s","i","n","g">>), Plus(Sp), Lit(<<"n","a","m","e","s","p","a","c","e">>)>>),
      Cat(<<Lit(<<"c","o","u","t">>), Star(Sp), Lit(<<"<","<">>)>>)>>)],
  \* /(public\s+class|System\.out\.println|import\s+java\.)/
  [language |-> "Java", pattern |-> Alt(<<
      Cat(<<Lit(<<"p","u","b","l","i","c">>), Plus(Sp), Lit(<<"c","l","a","s","s">>)>>),
      Lit(<<"S","y","s","t","e","m",".","o","u","t",".","p","r","i","n","t","l","n">>),
      Cat(<<Lit(<<"i","m","p","o","r","t">>), Plus(Sp), Lit(<<"j","a","v","a",".">>)>>)>>)],
  \* /(<!DOCTYPE html>|<html|<div\s|class\s*=\s*")/
  [language |-> "HTML", pattern |-> Alt(<<
      Lit(<<"<","!","D","O","C","T","Y","P","E"," ","h","t","m","l",">">>),
      Lit(<<"<","h","t","m","l">>),
      Cat(<<Lit(<<"<","d","i","v">>), Sp>>),
      Cat(<<Lit(<<"c","l","a","s","s">>), Star(Sp), Lit(<<"=">>), Star(Sp), Lit(<<"\"">>)>>)>>)],
  \* /(\.\w+\s*{|#\w+\s*{|@media|color:\s*#)/
  [language |-> "CSS", pattern |-> Alt(<<
      Cat(<<Lit(<<".">>), Plus(Wd), Star(Sp), Lit(<<"{">>)>>),
      Cat(<<Lit(<<"#">>), Plus(Wd), Star(Sp), Lit(<<"{">>)>>),
      Lit(<<"@","m","e","d","i","a">>),
      Cat(<<Lit(<<"c","o","l","o","r",":">>), Star(Sp), Lit(<<"#">>)>>)>>)],
  \* /(using\s+System|namespace\s+\w+|Console\.WriteLine)/
  [language |-> "C#", pattern |-> Alt(<<
      Cat(<<Lit(<<"u","s","i","n","g">>), Plus(Sp), Lit(<<"S","y","s","t","e","m">>)>>),
      Cat(<<Lit(<<"n","a","m","e","s","p","a","c","e">>), Plus(Sp), Plus(Wd)>>),
      Lit(<<"C","o","n","s","o","l","e",".","W","r","i","t","e","L","i","n","e">>)>>)],
  \* /(type\s+\w+\s*=|interface\s+\w+\s*{|:\s*\w+\s*[;=])/
  [language |-> "TypeScript", pattern |-> Alt(<<
      Cat(<<Lit(<<"t","y","p","e">>), Plus(Sp), Plus(Wd), Star(Sp), Lit(<<"=">>)>>),
      Cat(<<Lit(<<"i","n","t","e","r","f","a","c","e">>), Plus(Sp), Plus(Wd), Star(Sp), Lit(<<"{">>)>>),
      Cat(<<Lit(<<":">>), Star(Sp), Plus(Wd), Star(Sp), Chr({";", "="})>>)>>)]
>>

RECURSIVE LastMatch(_, _, _)
\* FirstMatch without the early return: a later candidate that tests true wins
LastMatch(ps, k, s) ==
  IF k > Len(ps) THEN "Unknown"
  ELSE LET rest == LastMatch(ps, k + 1, s)
       IN  IF rest # "Unknown" THEN rest
           ELSE IF Test(ps[k].pattern, s) THEN ps[k].language ELSE "Unknown"

RECURSIVE FirstMatch(_, _, _)
\* the for-of loop over the candidates: return at the first pattern that tests true
FirstMatch(ps, k, s) ==
  IF k > Len(ps) THEN "Unknown"
  ELSE IF Test(ps[k].pattern, s) THEN ps[k].language
  ELSE FirstMatch(ps, k + 1, s)

detectLanguage(text) ==
  LET trimmedCode == Trim(text)
  IN  IF trimmedCode = <<>> THEN "Unknown"
      ELSE FirstMatch(patterns, 1, trimmedCode)

---------------------------------------------------------------------------
(* The rule table *)

\* /==[^=]/
LooseEquality ==
  [regex |-> Cat(<<Lit(<<"=","=">>), NotChr({"="})>>), type |-> "warning",
   message |-> "Loose equality (==) found.",
   suggestion |-> "Use === for strict equality checks."]

rules == [lang \in Languages |->
  CASE lang = "JavaScript" -> <<
         LooseEquality,
         \* /\bvar\b/
         [regex |-> Cat(<<WordB, Lit(<<"v","a","r">>), WordB>>), type |-> "warning",
          message |-> "Found var declaration.",
          suggestion |-> "Use let or const for better scoping."],
         \* /console\.log\([^)]*$/
         [regex |-> Cat(<<Lit(<<"c","o","n","s","o","l","e",".","l","o","g","(">>), Star(NotChr({")"})), Eol>>),
          type |-> "syntax", message |-> "Possible missing semicolon.",
          suggestion |-> "Add a semicolon at the end."]>>
    [] lang = "TypeScript" -> <<LooseEquality>>
    [] lang = "Python" -> <<
         \* /^.*print\s+[^()]/
         [regex |-> Cat(<<Bol, Star(AnyCh), Lit(<<"p","r","i","n","t">>), Plus(Sp), NotChr({"(", ")"})>>),
          type |-> "syntax", message |-> "Python 3 print requires parentheses.",
          suggestion |-> "Use print() instead of print."],
         \* /^.*import \*/
         [regex |-> Cat(<<Bol, Star(AnyCh), Lit(<<"i","m","p","o","r","t"," ","*">>)>>), type |-> "warning",
          message |-> "Wildcard import found.",
          suggestion |-> "Avoid 'import *'. Import what you need."]>>
    [] lang = "HTML" -> <<
         \* /<img\b(?!.*\balt=)/
         [regex |-> Cat(<<Lit(<<"<","i","m","g">>), WordB,
                          NegLook(Cat(<<Star(AnyCh), WordB, Lit(<<"a","l","t","=">>)>>))>>),
          type |-> "warning", message |-> "Image missing alt attribute.",
          suggestion |-> "Add alt for accessibility."]>>
    [] lang = "CSS" -> <<
         \* /!important/
         [regex |-> Lit(<<"!","i","m","p","o","r","t","a","n","t">>), type |-> "warning",
          message |-> "Avoid !important.",
          suggestion |-> "Use more specific selectors instead."],
         \* /px/
         [regex |-> Lit(<<"p","x">>), type |-> "warning", message |-> "Pixel units used.",
          suggestion |-> "Consider rem/em for responsiveness."]>>
    [] OTHER -> <<>>]

---------------------------------------------------------------------------
(* analyzeCodeByRules and analyzeGeneral.  Each takes the two arrays it    *)
(* pushes to and yields them as they are when it returns.                  *)

RECURSIVE RuleLoopFirstOnly(_, _, _, _, _)
\* RuleLoop leaving the line at its first rule that tests true
RuleLoopFirstOnly(langRules, line, lineNumber, r, errs) ==
  IF r > Len(langRules) THEN errs
  ELSE IF Test(langRules[r].regex, line)
       THEN Append(errs, [line |-> lineNumber, message |-> langRules[r].message,
                          suggestion |-> langRules[r].suggestion,
                          type |-> langRules[r].type, codeSnippet |-> Trim(line)])
       ELSE RuleLoopFirstOnly(langRules, line, lineNumber, r + 1, errs)

RECURSIVE RuleLoop(_, _, _, _, _)
\* langRules.forEach over one line: push a finding for every rule that tests true
RuleLoop(langRules, line, lineNumber, r, errs) ==
  IF r > Len(langRules) THEN errs
  ELSE RuleLoop(langRules, line, lineNumber, r + 1,
         IF Test(langRules[r].regex, line)
         THEN Append(errs, [line |-> lineNumber, message |-> langRules[r].message,
                            suggestion |-> langRules[r].suggestion,
                            type |-> langRules[r].type, codeSnippet |-> Trim(line)])
         ELSE errs)

RECURSIVE LineLoop(_, _, _, _)
\* lines.forEach of analyzeCodeByRules
LineLoop(lines, langRules, index, errs) ==
  IF index >= Len(lines) THEN errs
  ELSE LineLoop(lines, langRules, index + 1,
                RuleLoop(langRules, lines[index + 1], index + 1, 1, errs))

analyzeCodeByRules(lines, lang, errs, tps) ==
  [errors |-> LineLoop(lines, rules[lang], 0, errs), tips |-> tps]

LongLineTip(lineNumber, length) ==
  <<"Line ", lineNumber, " is long (", length, " chars). Consider splitting.">>

RECURSIVE TipLoopFrom100(_, _, _)
\* TipLoop with >= for >
TipLoopFrom100(lines, index, tps) ==
  IF index >= Len(lines) THEN tps
  ELSE TipLoopFrom100(lines, index + 1,
               IF Len(lines[index + 1]) >= 100
               THEN Append(tps, LongLineTip(index + 1, Len(lines[index + 1])))
               ELSE tps)

RECURSIVE TipLoop(_, _, _)
\* lines.forEach of analyzeGeneral
TipLoop(lines, index, tps) ==
  IF index >= Len(lines) THEN tps
  ELSE TipLoop(lines, index + 1,
               IF Len(lines[index + 1]) > 100
               THEN Append(tps, LongLineTip(index + 1, Len(lines[index + 1])))
               ELSE tps)

\* "while(true)" and "for(;;)"
WhileTrue == <<"w","h","i","l","e","(","t","r","u","e",")">>
ForEver   == <<"f","o","r","(",";",";",")">>

HasLoopLiteral(s) == Includes(s, WhileTrue) \/ Includes(s, ForEver)

\* FindIndex yielding the last line that holds a literal
FindLastIndex(lines) ==
  LET hit == {i \in 1..Len(lines) : HasLoopLiteral(lines[i])}
  IN  IF hit = {} THEN -1
      ELSE (CHOOSE i \in hit : \A j \in hit : j <= i) - 1

\* Array.prototype.findIndex with the loop-literal predicate: 0-based, -1 when none
FindIndex(lines) ==
  LET hit == {i \in 1..Len(lines) : HasLoopLiteral(lines[i])}
  IN  IF hit = {} THEN -1
      ELSE (CHOOSE i \in hit : \A j \in hit : i <= j) - 1

analyzeGeneral(lines, errs, tps) ==
  LET content == Concat(lines)
  IN  [tips   |-> TipLoop(lines, 0, tps),
       errors |-> IF HasLoopLiteral(content)
                  THEN Append(errs, [line |-> FindIndex(lines) + 1,
                                     message |-> "Potential infinite loop detected.",
                                     suggestion |-> "Add a break condition.",
                                     type |-> "logical"])
                  ELSE errs]

---------------------------------------------------------------------------
(* The component, idle: what the other specifications hold it at *)

NoLanguage == "null"
NoRequest  == [made |-> FALSE]
NoRun      == <<"no run">>
NoShown    == [errors |-> <<>>, tips |-> <<>>]

CompIdle ==
  /\ code = <<>> /\ language = NoLanguage /\ errors = <<>> /\ tips = <<>>
  /\ isAnalyzing = FALSE /\ timers = <<>>
  /\ lastReq = NoRequest /\ tick = 0 /\ runCode = NoRun /\ editedPending = FALSE
  /\ prevShown = NoShown

DetIdle  == dText = <<>> /\ dResult = "none"
RuleIdle == rLines = <<>> /\ rLang = "Unknown" /\ rErrors = <<>> /\ rTips = <<>> /\ rPc = "idle"

---------------------------------------------------------------------------
(* detectLanguage applied to a text *)

MaxWords == 2

\* the pieces a text is put together from: "x=>y", "import os", "print(",
\* "#include <", "std::", "public class", "<div ", ".a{", "using System",
\* "n: T;", a space, a line feed
DetectWords == {<<"x","=",">","y">>, <<"i","m","p","o","r","t"," ","o","s">>, <<"p","r","i","n","t","(">>, <<"#","i","n","c","l","u","d","e"," ","<">>, <<"s","t","d",":",":">>,
                <<"p","u","b","l","i","c"," ","c","l","a","s","s">>, <<"<","d","i","v"," ">>, <<".","a","{">>, <<"u","s","i","n","g"," ","S","y","s","t","e","m">>, <<"n",":"," ","T",";">>,
                <<" ">>, <<"\n">>}

RECURSIVE WordSeqs(_)
WordSeqs(n) ==
  IF n = 0 THEN {<<>>}
  ELSE WordSeqs(n - 1) \cup {Append(ws, w) : ws \in WordSeqs(n - 1), w \in DetectWords}

DetectTexts == {Concat(ws) : ws \in WordSeqs(MaxWords)}

DetInit == dText \in DetectTexts /\ dResult = "none" /\ CompIdle /\ RuleIdle

Detect ==
  /\ dResult = "none"
  /\ dResult' = detectLanguage(dText)
  /\ UNCHANGED <<dText, compVars, ruleVars>>

DetNext == Detect

SpecDetect == DetInit /\ [][DetNext]_vars

---------------------------------------------------------------------------
(* The two analyzers applied to the lines of a text, as the delayed        *)
(* callback applies them: analyzeCodeByRules, then analyzeGeneral          *)

MaxLines == 2

Pad100 == [i \in 1..100 |-> "a"]

\* "var x == 5", "console.log(x", "from m import *;print x", "<img src=a>",
\* "a{width:1px !important}", "while(true){}", "for(;;)", "while(", "true)",
\* a line of 100 characters and a line of 101
LineSet == {<<"v","a","r"," ","x"," ","=","="," ","5">>, <<"c","o","n","s","o","l","e",".","l","o","g","(","x">>, <<"f","r","o","m"," ","m"," ","i","m","p","o","r","t"," ","*",";","p","r","i","n","t"," ","x">>,
            <<"<","i","m","g"," ","s","r","c","=","a",">">>, <<"a","{","w","i","d","t","h",":","1","p","x"," ","!","i","m","p","o","r","t","a","n","t","}">>,
            <<"w","h","i","l","e","(","t","r","u","e",")","{","}">>, <<"f","o","r","(",";",";",")">>, <<"w","h","i","l","e","(">>, <<"t","r","u","e",")">>,
            Pad100, Pad100 \o <<"x">>}

RECURSIVE LineSeqs(_)
LineSeqs(n) ==
  IF n <= 1 THEN {<<l>> : l \in LineSet}
  ELSE LineSeqs(n - 1) \cup {Append(ls, l) : ls \in LineSeqs(n - 1), l \in LineSet}

RuleInit ==
  /\ rLines \in LineSeqs(MaxLines) /\ rLang \in Languages
  /\ rErrors = <<>> /\ rTips = <<>> /\ rPc = "start"
  /\ CompIdle /\ DetIdle

RunRules ==
  /\ rPc = "start"
  /\ LET out == analyzeCodeByRules(rLines, rLang, rErrors, rTips)
     IN  rErrors' = out.errors /\ rTips' = out.tips
  /\ rPc' = "rules"
  /\ UNCHANGED <<rLines, rLang, compVars, detVars>>

RunGeneral ==
  /\ rPc = "rules"
  /\ LET out == analyzeGeneral(rLines, rErrors, rTips)
     IN  rErrors' = out.errors /\ rTips' = out.tips
  /\ rPc' = "done"
  /\ UNCHANGED <<rLines, rLang, compVars, detVars>>

RuleNext == RunRules \/ RunGeneral

SpecRules == RuleInit /\ [][RuleNext]_vars

---------------------------------------------------------------------------
(* The component *)

MaxPending == 2

\* the contents given to the text area: "", " \n", "var x == 5",
\* "import os\nprint x", "while(\ntrue)", and a line of 101 characters followed
\* by the line "public class A"
Texts == {<<>>, <<" ","\n">>, <<"v","a","r"," ","x"," ","=","="," ","5">>, <<"i","m","p","o","r","t"," ","o","s","\n","p","r","i","n","t"," ","x">>, <<"w","h","i","l","e","(","\n","t","r","u","e",")">>,
          Pad100 \o <<"x","\n","p","u","b","l","i","c"," ","c","l","a","s","s"," ","A">>}

Init == CompIdle /\ DetIdle /\ RuleIdle

\* IsBlank without the trim: only the empty text counts as blank
IsBlankNoTrim(text) == text = <<>>

\* !code.trim()
IsBlank(text) == Trim(text) = <<>>

\* AnalyzeDisabled without the isAnalyzing disjunct
AnalyzeDisabledIgnoresBusy == IsBlank(code)

\* the analyze button's disabled attribute
AnalyzeDisabled == IsBlank(code) \/ isAnalyzing

\* the text area's onChange
setCode(text) ==
  /\ text # code
  /\ code' = text
  /\ editedPending' = (editedPending \/ isAnalyzing)
  /\ UNCHANGED <<language, errors, tips, isAnalyzing, timers,
                 lastReq, tick, runCode, prevShown>>

\* analyzeCode without setErrors([]) and setTips([])
analyzeCodeKeeps ==
  IF IsBlank(code)
  THEN UNCHANGED <<language, errors, tips, isAnalyzing, timers,
                   runCode, editedPending, prevShown>>
  ELSE LET detectedLang == detectLanguage(code)
       IN  /\ isAnalyzing' = TRUE
           /\ language' = detectedLang
           /\ timers' = Append(timers, [code |-> code, detectedLang |-> detectedLang])
           /\ runCode' = code
           /\ editedPending' = FALSE
           /\ prevShown' = [errors |-> errors, tips |-> tips]
           /\ UNCHANGED <<errors, tips>>

\* analyzeCode up to and including its call of setTimeout
analyzeCode ==
  IF IsBlank(code)
  THEN UNCHANGED <<language, errors, tips, isAnalyzing, timers,
                   runCode, editedPending, prevShown>>
  ELSE LET detectedLang == detectLanguage(code)
       IN  /\ isAnalyzing' = TRUE
           /\ errors' = <<>>
           /\ tips' = <<>>
           /\ language' = detectedLang
           /\ timers' = Append(timers, [code |-> code, detectedLang |-> detectedLang])
           /\ runCode' = code
           /\ editedPending' = FALSE
           /\ prevShown' = [errors |-> errors, tips |-> tips]

\* a press of the analyze button while it is enabled: onClick runs analyzeCode
ClickAnalyze ==
  /\ ~AnalyzeDisabled
  /\ Len(timers) < MaxPending
  /\ analyzeCode
  /\ lastReq' = [made |-> TRUE, text |-> code, busy |-> isAnalyzing]
  /\ tick' = 1 - tick
  /\ UNCHANGED code

\* a press of the analyze button while it is disabled: no click is dispatched
ClickDisabled ==
  /\ AnalyzeDisabled
  /\ lastReq' = [made |-> TRUE, text |-> code, busy |-> isAnalyzing]
  /\ tick' = 1 - tick
  /\ UNCHANGED <<code, language, errors, tips, isAnalyzing, timers,
                 runCode, editedPending, prevShown>>

\* TimerFire splitting the text area's present content, not the captured text
TimerFireReadsCode ==
  /\ timers # <<>>
  /\ LET cb        == Head(timers)
         lines     == Split(code)
         byRules   == analyzeCodeByRules(lines, cb.detectedLang, <<>>, <<>>)
         byGeneral == analyzeGeneral(lines, byRules.errors, byRules.tips)
     IN  /\ errors' = byGeneral.errors
         /\ tips' = byGeneral.tips
  /\ isAnalyzing' = FALSE
  /\ timers' = Tail(timers)
  /\ UNCHANGED <<code, language, lastReq, tick, runCode, editedPending, prevShown>>

\* TimerFire without setIsAnalyzing(false)
TimerFireKeepsFlag ==
  /\ timers # <<>>
  /\ LET cb        == Head(timers)
         lines     == Split(cb.code)
         byRules   == analyzeCodeByRules(lines, cb.detectedLang, <<>>, <<>>)
         byGeneral == analyzeGeneral(lines, byRules.errors, byRules.tips)
     IN  /\ errors' = byGeneral.errors
         /\ tips' = byGeneral.tips
  /\ timers' = Tail(timers)
  /\ UNCHANGED <<code, language, isAnalyzing, lastReq, tick, runCode, editedPending, prevShown>>

\* the callback handed to setTimeout, run for the oldest pending call
TimerFire ==
  /\ timers # <<>>
  /\ LET cb        == Head(timers)
         lines     == Split(cb.code)
         byRules   == analyzeCodeByRules(lines, cb.detectedLang, <<>>, <<>>)
         byGeneral == analyzeGeneral(lines, byRules.errors, byRules.tips)
     IN  /\ errors' = byGeneral.errors
         /\ tips' = byGeneral.tips
  /\ isAnalyzing' = FALSE
  /\ timers' = Tail(timers)
  /\ UNCHANGED <<code, language, lastReq, tick, runCode, editedPending, prevShown>>

Next ==
  \/ \E text \in Texts : setCode(text) /\ UNCHANGED <<detVars, ruleVars>>
  \/ ClickAnalyze /\ UNCHANGED <<detVars, ruleVars>>
  \/ ClickDisabled /\ UNCHANGED <<detVars, ruleVars>>
  \/ TimerFire /\ UNCHANGED <<detVars, ruleVars>>

Spec == Init /\ [][Next]_vars

\* a step that takes the oldest pending callback off the timer queue: of the
\* steps of Next, exactly those of TimerFire
RunsCallback == timers # <<>> /\ timers' = Tail(timers)

\* a callback handed to setTimeout is eventually run
FairSpec == Spec /\ WF_timers(RunsCallback)

---------------------------------------------------------------------------
(* Properties of detectLanguage, under SpecDetect *)

\* the candidates whose pattern tests true on s, by position in the list
Matching(s) == {k \in 1..Len(patterns) : Test(patterns[k].pattern, s)}

FirstOf(S) == CHOOSE k \in S : \A j \in S : k <= j

\* C3, as stated: the result is Unknown when the trimmed text is empty or no
\* candidate pattern matches the text, and otherwise the language of the first
\* candidate, in the fixed order, whose pattern matches the text.
C3_FirstMatchOnText ==
  dResult # "none" =>
    IF Trim(dText) = <<>> \/ Matching(dText) = {}
    THEN dResult = "Unknown"
    ELSE dResult = patterns[FirstOf(Matching(dText))].language

\* C3, amended: the candidates are tested against the trimmed text.  The result is
\* Unknown when the trimmed text is empty or no pattern matches it, and otherwise
\* the language of the first candidate whose pattern matches it; a later candidate
\* that matches too never changes the result, so a text that matches both the C
\* and the C++ pattern is never C++.
C3_FirstMatchOnTrimmedText ==
  dResult # "none" =>
    LET t == Trim(dText)
        M == Matching(t)
    IN  /\ (t = <<>> \/ M = {}) => dResult = "Unknown"
        /\ (t # <<>> /\ M # {}) =>
             dResult = patterns[FirstOf(M)].language
        /\ ({"C", "C++"} \subseteq {patterns[k].language : k \in M}) => dResult # "C++"
        /\ [k \in 1..Len(patterns) |-> patterns[k].language] =
             <<"JavaScript", "Python", "C", "C++", "Java", "HTML", "CSS", "C#", "TypeScript">>

\* a text that the C pattern wins although the C++ pattern matches it too
C3_Witness ==
  /\ dResult = "C"
  /\ {3, 4} \subseteq Matching(Trim(dText))
  /\ Matching(dText) # Matching(Trim(dText))

---------------------------------------------------------------------------
(* Properties of the two analyzers, under SpecRules *)

LoopFindings == {k \in 1..Len(rErrors) : rErrors[k].type = "logical"}

\* C1: after a run of both analyzers every finding's line number is within
\* 1..N, N the number of lines analyzed, also when a loop literal only appears
\* in the concatenation of the lines.
C1_LineNumbersInRange ==
  rPc = "done" => \A k \in 1..Len(rErrors) : rErrors[k].line \in 1..Len(rLines)

\* the (line, rule) pairs of a language whose rule matches the line taken alone
Hits(lines, lang) ==
  {p \in (1..Len(lines)) \X (1..Len(rules[lang])) : Test(rules[lang][p[2]].regex, lines[p[1]])}

Before(p, q) == p[1] < q[1] \/ (p[1] = q[1] /\ p[2] < q[2])

\* C6: the findings of analyzeCodeByRules are one per (line, rule) pair whose
\* rule matches the line, by line and then by rule, each with the line's
\* 1-based number and the rule's severity, message and suggestion; a language
\* with no rules yields none.
C6_OneFindingPerMatch ==
  rPc = "rules" =>
    LET H == Hits(rLines, rLang)
    IN  /\ Len(rErrors) = Cardinality(H)
        /\ \A p \in H :
             LET k == 1 + Cardinality({q \in H : Before(q, p)})
                 rule == rules[rLang][p[2]]
             IN  /\ rErrors[k].line = p[1]
                 /\ rErrors[k].type = rule.type
                 /\ rErrors[k].message = rule.message
                 /\ rErrors[k].suggestion = rule.suggestion
        /\ rLang \in {"C", "C++", "Java", "C#", "Unknown"} => rErrors = <<>>

\* a line that two rules match, and a second line with a finding after it
C6_Witness ==
  /\ rPc = "rules" /\ Len(rErrors) >= 3
  /\ rErrors[1].line = 1 /\ rErrors[2].line = 1 /\ rErrors[3].line = 2

\* C7: analyzeGeneral adds exactly one finding of severity logical when the
\* concatenation of the lines holds a loop literal and none otherwise, however
\* many lines hold one; when some line holds a literal, the finding's line
\* number is the 1-based index of the first such line.
C7_OneLoopFinding ==
  rPc = "done" =>
    LET holders == {i \in 1..Len(rLines) : HasLoopLiteral(rLines[i])}
    IN  /\ HasLoopLiteral(Concat(rLines)) => Cardinality(LoopFindings) = 1
        /\ ~HasLoopLiteral(Concat(rLines)) => LoopFindings = {}
        /\ holders # {} =>
             \A k \in LoopFindings : rErrors[k].line = FirstOf(holders)

\* two lines hold a literal and the finding names the first
C7_Witness ==
  /\ rPc = "done"
  /\ Cardinality({i \in 1..Len(rLines) : HasLoopLiteral(rLines[i])}) >= 2
  /\ \E k \in LoopFindings : rErrors[k].line = 1

\* C8: the tips are one per line longer than 100 characters, in line order, each
\* naming the line's 1-based number and its length, whatever the language; the
\* per-language rules add and remove none.
C8_OneTipPerLongLine ==
  LET long == {i \in 1..Len(rLines) : Len(rLines[i]) > 100}
  IN  /\ rPc = "rules" => rTips = <<>>
      /\ rPc = "done" =>
           /\ Len(rTips) = Cardinality(long)
           /\ \A i \in long :
                rTips[1 + Cardinality({j \in long : j < i})] =
                  <<"Line ", i, " is long (", Len(rLines[i]), " chars). Consider splitting.">>

\* a language without rules, a line of exactly 100 characters and a longer one
C8_Witness ==
  /\ rPc = "done" /\ rLang = "Java" /\ Len(rTips) = 1 /\ rErrors = <<>>
  /\ \E i \in 1..Len(rLines) : Len(rLines[i]) = 100
  /\ \E i \in 1..Len(rLines) : Len(rLines[i]) = 101

---------------------------------------------------------------------------
(* Properties of the component, under Spec and FairSpec *)

\* what one analysis of a text yields: the language detected from it and the
\* findings and tips of the two analyzers over its lines
Analysis(text) ==
  LET lang    == detectLanguage(text)
      lines   == Split(text)
      byRules == analyzeCodeByRules(lines, lang, <<>>, <<>>)
      out     == analyzeGeneral(lines, byRules.errors, byRules.tips)
  IN  [language |-> lang, errors |-> out.errors, tips |-> out.tips]

AnalysisOf == [text \in Texts |-> Analysis(text)]

AllWhiteSpace(text) == \A i \in 1..Len(text) : text[i] \in WhiteSpace

Pressed == tick' # tick

\* C2, as stated: a press of the analyze control on an empty or whitespace-only
\* text, nothing being pending, leaves no language or language Unknown, and
\* empty findings and tips, whatever they were before.
C2_BlankRequestShowsNothing ==
  [][(Pressed /\ AllWhiteSpace(code) /\ ~isAnalyzing) =>
       /\ language' \in {NoLanguage, "Unknown"}
       /\ errors' = <<>>
       /\ tips' = <<>>]_vars

\* C2, amended: a press of the analyze control on an empty or whitespace-only
\* text performs no analysis and leaves the language, the findings, the tips,
\* the analyzing flag and the pending callbacks exactly as they were.
C2_BlankRequestChangesNothing ==
  [][(Pressed /\ AllWhiteSpace(code)) =>
       UNCHANGED <<code, language, errors, tips, isAnalyzing, timers>>]_vars

\* the latest press was on a blank text with nothing pending, and the results
\* of an earlier analysis are still on show
C2_Witness ==
  /\ lastReq.made /\ AllWhiteSpace(lastReq.text) /\ ~lastReq.busy
  /\ code = lastReq.text
  /\ language \notin {NoLanguage, "Unknown"} /\ errors # <<>>

\* C4: the findings and tips are emptied when a run starts and, when it
\* delivers, replaced as a whole by what that run produced; nothing of an
\* earlier run survives or is appended to.
C4_FreshCollectionsPerRun ==
  [][/\ (isAnalyzing' /\ ~isAnalyzing) => (errors' = <<>> /\ tips' = <<>>)
     /\ (Len(timers') < Len(timers)) =>
          /\ errors' = AnalysisOf[Head(timers).code].errors
          /\ tips' = AnalysisOf[Head(timers).code].tips]_vars

\* a run has delivered findings after an earlier run had shown other findings
C4_Witness ==
  /\ ~isAnalyzing /\ timers = <<>>
  /\ prevShown.errors # <<>> /\ errors # <<>> /\ errors # prevShown.errors
  /\ runCode \in Texts /\ errors = AnalysisOf[runCode].errors

\* C5, as stated: when the analyze control was last pressed while a result was
\* pending, then once the timers have fired the language, findings and tips are
\* those of the analysis of the text of that latest press.
C5_NewerRequestSupersedes ==
  (lastReq.made /\ lastReq.busy /\ ~AllWhiteSpace(lastReq.text) /\ timers = <<>>) =>
    /\ language = AnalysisOf[lastReq.text].language
    /\ errors = AnalysisOf[lastReq.text].errors
    /\ tips = AnalysisOf[lastReq.text].tips

\* C5, amended: a press of the analyze control while a result is pending is
\* dropped: it starts no timer and changes nothing; when the pending callback
\* runs, the findings and tips are those of the text of the press that started
\* it, whatever was pressed or typed since.
C5_PressWhilePendingDropped ==
  [][/\ (Pressed /\ isAnalyzing) =>
          UNCHANGED <<code, language, errors, tips, isAnalyzing, timers, runCode>>
     /\ (Len(timers') < Len(timers) /\ lastReq.made /\ lastReq.busy) =>
          /\ language' = AnalysisOf[runCode].language
          /\ errors' = AnalysisOf[runCode].errors
          /\ tips' = AnalysisOf[runCode].tips
          /\ timers' = <<>>]_vars

\* a press on another, non-blank text was dropped while a result was pending,
\* and the pending result has been delivered
C5_Witness ==
  /\ lastReq.made /\ lastReq.busy /\ ~AllWhiteSpace(lastReq.text)
  /\ lastReq.text # runCode
  /\ timers = <<>> /\ ~isAnalyzing /\ errors # <<>>

\* C9: with the analyzing flag false, findings or tips on show are those of the
\* text as it was when the analysis was requested, and the language on show is
\* the one detected from that text; while the result is pending, the callback
\* holds that text and that language, whatever is typed meanwhile.
C9_ShownFromRequestedText ==
  /\ (~isAnalyzing /\ (errors # <<>> \/ tips # <<>>)) =>
       /\ runCode \in Texts
       /\ language = AnalysisOf[runCode].language
       /\ errors = AnalysisOf[runCode].errors
       /\ tips = AnalysisOf[runCode].tips
  /\ isAnalyzing =>
       \A k \in 1..Len(timers) :
          timers[k].code = runCode /\ timers[k].detectedLang = language

\* results are on show for a text that was replaced in the text area while they
\* were pending, by a text with another analysis
C9_Witness ==
  /\ ~isAnalyzing /\ editedPending /\ errors # <<>>
  /\ code # runCode
  /\ AnalysisOf[code].errors # errors /\ AnalysisOf[code].language # language

\* C10: the analyzing flag is true exactly when one callback is pending, never
\* more than one is pending, no press starts another while the flag is true,
\* findings and tips are empty while the flag is true, and every analysis that
\* was started delivers its result and resets the flag.
C10_OnePendingUntilDelivered ==
  /\ [](isAnalyzing <=> Len(timers) = 1)
  /\ [](Len(timers) <= 1)
  /\ [](isAnalyzing => (errors = <<>> /\ tips = <<>>))
  /\ [][isAnalyzing => Len(timers') <= Len(timers)]_vars
  /\ (isAnalyzing ~> (~isAnalyzing /\ timers = <<>>))

\* the analyze control was pressed while the flag was true, and still exactly
\* one callback is pending
C10_Witness ==
  /\ isAnalyzing /\ Len(timers) = 1
  /\ lastReq.made /\ lastReq.busy /\ ~AllWhiteSpace(lastReq.text)

=============================================================================
